---- MODULE Spec2Model ----
(***************************************************************************)
(* The text-only TreeSink of dissolve (src/src/lib.rs).  The HTML5 parser  *)
(* is the environment: it drives the sink through an arbitrary sequence of *)
(* TreeSink callbacks and, unless a callback panicked, ends with finish.   *)
(***************************************************************************)
EXTENDS Naturals, Sequences, FiniteSets

VARIABLES
    text,     \* TextOnly.text: the buffer, a sequence of characters
    nodes,    \* the Rc<Node> allocations made so far; a Handle is an index
    status,   \* "running" | "finished" (sink consumed) | "panicked"
    output,   \* what finish returned, NoOutput before
    origin,   \* history: the callback that allocated each node
    made_for, \* history: the target each node was made for by
              \* get_template_contents, NoHandle for any other node
    chunks,   \* history: the text payloads delivered, in call order
    last,     \* history: the callback invoked by the latest step
    erred,    \* history: parse_error has been called
    twin,     \* a second buffer driven by the same calls with append and
              \* append_based_on_parent_node swapped
    kids,     \* reference DOM: the children (nodes and text) of each node
    par,      \* reference DOM: the parent of each node, NoHandle if none
    ordered,  \* reference DOM: every payload so far went to the end of
              \* document order, and no move or detachment changed the
              \* document's text
    borrows,  \* RefCell borrow flag of text: the RefMut guards alive
    prev      \* history: payloads and output of the previous call of
              \* strip_html_tags, NoPrev in the first

refvars == <<kids, par, ordered>>
vars == <<text, nodes, status, output, origin, made_for, chunks, last, erred, twin,
         kids, par, ordered, borrows, prev>>

\* ---------------------------------------------------------------- bounds
MaxNodes == 3
MaxChunks == 2

\* ---------------------------------------------------------------- inputs
Payloads == {<<"a">>, <<"a", "b">>}
QualNames == {[prefix |-> "", ns |-> "html", local |-> "table"],
              [prefix |-> "svg", ns |-> "svg", local |-> "title"]}
AttrLists == {<<>>, <<"id">>}
ElementFlags == {"default", "template"}
TableNames == {n \in QualNames : n.local = "table"}
NoOutput == <<"<none>">>
NoHandle == 0
NoPrev == [chunks |-> <<>>, output |-> NoOutput]
Handles == 1..Len(nodes)

\* ------------------------------------------------------------- data model
\* enum NodeData
Document == [kind |-> "Document", name |-> "-"]
Comment == [kind |-> "Comment", name |-> "-"]
ProcessingInstruction == [kind |-> "ProcessingInstruction", name |-> "-"]
Element(name) == [kind |-> "Element", name |-> name]

\* Node::new: a node holding data; Rc::new gives it a fresh allocation, which
\* the actions render as the next index of nodes.
Node_new(data) == [data |-> data]

\* NodeOrText<Handle>
AppendNode(h) == [kind |-> "AppendNode", node |-> h, text |-> <<>>]
AppendText(s) == [kind |-> "AppendText", node |-> NoHandle, text |-> s]
NoChild == [kind |-> "-", node |-> NoHandle, text |-> <<>>]
Children == {AppendNode(h) : h \in Handles} \cup {AppendText(s) : s \in Payloads}

\* QualName::expanded: the namespace and local name, without the prefix.
expanded(name) == [ns |-> name.ns, local |-> name.local]
NoName == [ns |-> "-", local |-> "-"]

\* ------------------------------------------------- the callbacks' bodies
\* Each gives the buffer the callback leaves behind and whether it panicked;
\* a handle-returning callback gives the node it allocates.


\* finish handing back a fresh String instead of the buffer.
finish_empty(t) == <<>>

finish(t) == t


\* parse_error treating a markup error as fatal.
parse_error_fatal(t, msg) == [text |-> t, panic |-> TRUE]

parse_error(t, msg) == [text |-> t, panic |-> FALSE]

get_document == Node_new(Document)


\* elem_name answering for every node instead of panicking.
elem_name_lenient(target) ==
    IF nodes[target].data.kind = "Element"
    THEN [ret |-> expanded(nodes[target].data.name), panic |-> FALSE]
    ELSE [ret |-> NoName, panic |-> FALSE]

elem_name(target) ==
    IF nodes[target].data.kind = "Element"
    THEN [ret |-> expanded(nodes[target].data.name), panic |-> FALSE]
    ELSE [ret |-> NoName, panic |-> TRUE]

\* create_element letting the first attribute name the element.
create_element_by_attrs(name, attrs, flags) ==
    IF attrs = <<>>
    THEN Node_new(Element(name))
    ELSE Node_new(Element([name EXCEPT !.local = attrs[1]]))

create_element(name, attrs, flags) == Node_new(Element(name))

create_comment(s) == Node_new(Comment)

create_pi(target, data) == Node_new(ProcessingInstruction)

append_doctype_to_document(t) == [text |-> t, panic |-> FALSE]


\* append separating the chunks with a space.
append_separated(t, parent, child) ==
    IF child.kind = "AppendText"
    THEN [text |-> t \o <<" ">> \o child.text, panic |-> FALSE]
    ELSE [text |-> t, panic |-> FALSE]

\* append putting the latest chunk in front.
append_front(t, parent, child) ==
    IF child.kind = "AppendText"
    THEN [text |-> child.text \o t, panic |-> FALSE]
    ELSE [text |-> t, panic |-> FALSE]

\* append writing a placeholder for a node payload.
append_node_marker(t, parent, child) ==
    IF child.kind = "AppendText"
    THEN [text |-> t \o child.text, panic |-> FALSE]
    ELSE [text |-> t \o <<"?">>, panic |-> FALSE]

\* append keeping text under template contents out of the buffer.
append_isolating(t, parent, child) ==
    IF child.kind = "AppendText" /\ origin[parent] # "get_template_contents"
    THEN [text |-> t \o child.text, panic |-> FALSE]
    ELSE [text |-> t, panic |-> FALSE]

append(t, parent, child) ==
    IF child.kind = "AppendText"
    THEN [text |-> t \o child.text, panic |-> FALSE]
    ELSE [text |-> t, panic |-> FALSE]


\* append_based_on_parent_node putting foster-parented text in front.
append_based_on_parent_node_front(t, element, prev_element, child) ==
    IF child.kind = "AppendText"
    THEN [text |-> child.text \o t, panic |-> FALSE]
    ELSE [text |-> t, panic |-> FALSE]

append_based_on_parent_node(t, element, prev_element, child) ==
    IF child.kind = "AppendText"
    THEN [text |-> t \o child.text, panic |-> FALSE]
    ELSE [text |-> t, panic |-> FALSE]


\* append_before_sibling treated like append.
append_before_sibling_lenient(t, sibling, new_node) ==
    IF new_node.kind = "AppendText"
    THEN [text |-> t \o new_node.text, panic |-> FALSE]
    ELSE [text |-> t, panic |-> FALSE]

append_before_sibling(t, sibling, new_node) == [text |-> t, panic |-> TRUE]

get_template_contents(target) == Node_new(Document)

\* same_node comparing the nodes' contents.
same_node_structural(x, y) == nodes[x] = nodes[y]

\* Rc::ptr_eq: the two handles are the same allocation.
same_node(x, y) == x = y

set_quirks_mode(t, mode) == [text |-> t, panic |-> FALSE]

add_attrs_if_missing(t, target, attrs) == [text |-> t, panic |-> FALSE]

\* remove_from_parent taking the latest character back out of the buffer.
remove_from_parent_truncating(t, target) ==
    [text |-> IF t = <<>> THEN t ELSE SubSeq(t, 1, Len(t) - 1), panic |-> FALSE]

remove_from_parent(t, target) == [text |-> t, panic |-> FALSE]


\* reparent_children discarding the text gathered so far.
reparent_children_clearing(t, node, new_parent) == [text |-> <<>>, panic |-> FALSE]

reparent_children(t, node, new_parent) == [text |-> t, panic |-> FALSE]

\* ------------------------------------------------------------------ state
Init ==
    /\ text = <<>>
    /\ nodes = <<>>
    /\ status = "running"
    /\ output = NoOutput
    /\ origin = <<>>
    /\ made_for = <<>>
    /\ chunks = <<>>
    /\ last = [op |-> "default", kind |-> "-",
               ret |-> [handle |-> NoHandle, same |-> FALSE, name |-> NoName]]
    /\ erred = FALSE
    /\ twin = <<>>
    /\ kids = <<>>
    /\ par = <<>>
    /\ ordered = TRUE
    /\ borrows = 0
    /\ prev = NoPrev

\* What a callback returned: a handle, a boolean or a name.
NoRet == [handle |-> NoHandle, same |-> FALSE, name |-> NoName]
RetHandle(h) == [handle |-> h, same |-> FALSE, name |-> NoName]
RetBool(b) == [handle |-> NoHandle, same |-> b, name |-> NoName]
RetName(n) == [handle |-> NoHandle, same |-> FALSE, name |-> n]

Call(op, args, child, ret) == [op |-> op, kind |-> child.kind, ret |-> ret]

\* RefCell::borrow_mut: panics if the cell is already borrowed, else the
\* guard it returns is the one borrow.
borrow_mut(b) == [ok |-> b = 0, flag |-> IF b = 0 THEN 1 ELSE b]

\* The guard of self.text.borrow_mut().push_str(text) kept alive after the
\* statement.
held_after_push_leaked(b) == borrow_mut(b).flag

\* self.text.borrow_mut().push_str(text): the guard is a temporary, dropped
\* when the statement ends.
held_after_push(b) == borrow_mut(b).flag - 1

\* A text payload needs the borrow: the callback panics without it.
Borrowing(child, eff) ==
    IF child.kind = "AppendText" /\ ~borrow_mut(borrows).ok
    THEN [text |-> text, panic |-> TRUE]
    ELSE eff

BorrowsAfter(child) ==
    IF child.kind = "AppendText" /\ borrow_mut(borrows).ok
    THEN held_after_push(borrows)
    ELSE borrows

\* A callback that returns normally or panics, leaving buffer eff.text.
Effect(eff) ==
    /\ text' = eff.text
    /\ status' = IF eff.panic THEN "panicked" ELSE status

\* A sink that keeps the template contents of each target and hands the same
\* node out again when asked a second time.
AllocateCached(n, by, target) ==
    /\ Len(nodes) < MaxNodes
    /\ IF target # NoHandle /\ \E h \in Handles : made_for[h] = target
       THEN UNCHANGED <<nodes, origin, made_for>>
       ELSE /\ nodes' = Append(nodes, n)
            /\ origin' = Append(origin, by)
            /\ made_for' = Append(made_for, target)

\* A callback that allocates node n.
Allocate(n, by, target) ==
    /\ Len(nodes) < MaxNodes
    /\ nodes' = Append(nodes, n)
    /\ origin' = Append(origin, by)
    /\ made_for' = Append(made_for, target)

\* A text-bearing callback records its payload.
Deliver(op, parent, child) ==
    IF child.kind = "AppendText"
    THEN /\ Len(chunks) < MaxChunks
         /\ chunks' = Append(chunks, [text |-> child.text,
                                      tmpl |-> origin[parent] = "get_template_contents"])
    ELSE chunks' = chunks


\* finish reached although a callback panicked.
FinishAfterPanic ==
    /\ status \in {"running", "panicked"}
    /\ output' = finish(text)
    /\ status' = "finished"
    /\ last' = Call("finish", <<>>, NoChild, NoRet)
    /\ UNCHANGED <<text, nodes, origin, made_for, chunks, erred, twin>>
    /\ UNCHANGED <<refvars, borrows, prev>>

Finish ==
    /\ status = "running"
    /\ output' = finish(text)
    /\ status' = "finished"
    /\ last' = Call("finish", <<>>, NoChild, NoRet)
    /\ UNCHANGED <<text, nodes, origin, made_for, chunks, erred, twin>>
    /\ UNCHANGED <<refvars, borrows, prev>>

ParseError ==
    /\ status = "running"
    /\ Effect(parse_error(text, "msg"))
    /\ twin' = parse_error(twin, "msg").text
    /\ erred' = TRUE
    /\ last' = Call("parse_error", <<>>, NoChild, NoRet)
    /\ UNCHANGED <<nodes, output, origin, made_for, chunks>>
    /\ UNCHANGED <<refvars, borrows, prev>>

GetDocument ==
    /\ status = "running"
    /\ Allocate(get_document, "get_document", NoHandle)
    /\ last' = Call("get_document", <<>>, NoChild, RetHandle(Len(nodes')))
    /\ UNCHANGED <<text, status, output, chunks, erred, twin>>
    /\ UNCHANGED <<refvars, borrows, prev>>

ElemName(target) ==
    /\ status = "running"
    /\ status' = IF elem_name(target).panic THEN "panicked" ELSE status
    /\ last' = Call("elem_name", <<target>>, NoChild, RetName(elem_name(target).ret))
    /\ UNCHANGED <<text, nodes, output, origin, made_for, chunks, erred, twin>>
    /\ UNCHANGED <<refvars, borrows, prev>>

CreateElement(name) ==
    /\ status = "running"
    /\ \E attrs \in AttrLists, flags \in ElementFlags :
           Allocate(create_element(name, attrs, flags), "create_element", NoHandle)
    /\ last' = Call("create_element", <<>>, NoChild, RetHandle(Len(nodes')))
    /\ UNCHANGED <<text, status, output, chunks, erred, twin>>
    /\ UNCHANGED <<refvars, borrows, prev>>

CreateComment ==
    /\ status = "running"
    /\ Allocate(create_comment("c"), "create_comment", NoHandle)
    /\ last' = Call("create_comment", <<>>, NoChild, RetHandle(Len(nodes')))
    /\ UNCHANGED <<text, status, output, chunks, erred, twin>>
    /\ UNCHANGED <<refvars, borrows, prev>>

CreatePi ==
    /\ status = "running"
    /\ Allocate(create_pi("t", "d"), "create_pi", NoHandle)
    /\ last' = Call("create_pi", <<>>, NoChild, RetHandle(Len(nodes')))
    /\ UNCHANGED <<text, status, output, chunks, erred, twin>>
    /\ UNCHANGED <<refvars, borrows, prev>>

AppendDoctypeToDocument ==
    /\ status = "running"
    /\ Effect(append_doctype_to_document(text))
    /\ twin' = append_doctype_to_document(twin).text
    /\ last' = Call("append_doctype_to_document", <<>>, NoChild, NoRet)
    /\ UNCHANGED <<nodes, output, origin, made_for, chunks, erred>>
    /\ UNCHANGED <<refvars, borrows, prev>>

\* The twin receives the payload through the other text callback, with any
\* handles.
AppendTo(parent, child) ==
    /\ status = "running"
    /\ Deliver("append", parent, child)
    /\ Effect(Borrowing(child, append(text, parent, child)))
    /\ twin' \in {append_based_on_parent_node(twin, e, p, child).text :
                    e \in Handles, p \in Handles}
    /\ last' = Call("append", <<parent>>, child, NoRet)
    /\ UNCHANGED <<nodes, output, origin, made_for, erred>>
    /\ borrows' = BorrowsAfter(child)
    /\ UNCHANGED <<refvars, prev>>

AppendBasedOnParentNode(element, prev_element, child) ==
    /\ status = "running"
    /\ Deliver("append_based_on_parent_node", element, child)
    /\ Effect(Borrowing(child, append_based_on_parent_node(text, element, prev_element, child)))
    /\ twin' \in {append(twin, p, child).text : p \in Handles}
    /\ last' = Call("append_based_on_parent_node", <<element, prev_element>>, child, NoRet)
    /\ UNCHANGED <<nodes, output, origin, made_for, erred>>
    /\ borrows' = BorrowsAfter(child)
    /\ UNCHANGED <<refvars, prev>>

AppendBeforeSibling(sibling, new_node) ==
    /\ status = "running"
    /\ Effect(append_before_sibling(text, sibling, new_node))
    /\ twin' = append_before_sibling(twin, sibling, new_node).text
    /\ last' = Call("append_before_sibling", <<sibling>>, new_node, NoRet)
    /\ UNCHANGED <<nodes, output, origin, made_for, chunks, erred>>
    /\ UNCHANGED <<refvars, borrows, prev>>

GetTemplateContents(target) ==
    /\ status = "running"
    /\ Allocate(get_template_contents(target), "get_template_contents", target)
    /\ last' = Call("get_template_contents", <<target>>, NoChild, RetHandle(Len(nodes')))
    /\ UNCHANGED <<text, status, output, chunks, erred, twin>>
    /\ UNCHANGED <<refvars, borrows, prev>>

SameNode(x, y) ==
    /\ status = "running"
    /\ last' = Call("same_node", <<x, y>>, NoChild, RetBool(same_node(x, y)))
    /\ UNCHANGED <<text, nodes, status, output, origin, made_for, chunks, erred, twin>>
    /\ UNCHANGED <<refvars, borrows, prev>>

SetQuirksMode ==
    /\ status = "running"
    /\ Effect(set_quirks_mode(text, "Quirks"))
    /\ twin' = set_quirks_mode(twin, "Quirks").text
    /\ last' = Call("set_quirks_mode", <<>>, NoChild, NoRet)
    /\ UNCHANGED <<nodes, output, origin, made_for, chunks, erred>>
    /\ UNCHANGED <<refvars, borrows, prev>>

AddAttrsIfMissing(target) ==
    /\ status = "running"
    /\ Effect(add_attrs_if_missing(text, target, <<>>))
    /\ twin' = add_attrs_if_missing(twin, target, <<>>).text
    /\ last' = Call("add_attrs_if_missing", <<target>>, NoChild, NoRet)
    /\ UNCHANGED <<nodes, output, origin, made_for, chunks, erred>>
    /\ UNCHANGED <<refvars, borrows, prev>>

RemoveFromParent(target) ==
    /\ status = "running"
    /\ Effect(remove_from_parent(text, target))
    /\ twin' = remove_from_parent(twin, target).text
    /\ last' = Call("remove_from_parent", <<target>>, NoChild, NoRet)
    /\ UNCHANGED <<nodes, output, origin, made_for, chunks, erred>>
    /\ UNCHANGED <<refvars, borrows, prev>>

ReparentChildren(node, new_parent) ==
    /\ status = "running"
    /\ Effect(reparent_children(text, node, new_parent))
    /\ twin' = reparent_children(twin, node, new_parent).text
    /\ last' = Call("reparent_children", <<node, new_parent>>, NoChild, NoRet)
    /\ UNCHANGED <<nodes, output, origin, made_for, chunks, erred>>
    /\ UNCHANGED <<refvars, borrows, prev>>

Next ==
    \/ Finish
    \/ ParseError
    \/ GetDocument
    \/ \E target \in Handles : ElemName(target)
    \/ \E name \in QualNames : CreateElement(name)
    \/ CreateComment
    \/ CreatePi
    \/ AppendDoctypeToDocument
    \/ \E parent \in Handles, child \in Children : AppendTo(parent, child)
    \/ \E element \in Handles, prev_element \in Handles, child \in Children :
           AppendBasedOnParentNode(element, prev_element, child)
    \/ \E sibling \in Handles, new_node \in Children :
           AppendBeforeSibling(sibling, new_node)
    \/ \E target \in Handles : GetTemplateContents(target)
    \/ \E x \in Handles, y \in Handles : SameNode(x, y)
    \/ SetQuirksMode
    \/ \E target \in Handles : AddAttrsIfMissing(target)
    \/ \E target \in Handles : RemoveFromParent(target)
    \/ \E node \in Handles, new_parent \in Handles : ReparentChildren(node, new_parent)

Spec == Init /\ [][Next]_vars

\* ---------------------------------------------------------- reference DOM
\* The tree-building sink the specification compares the flat sink with: it
\* keeps parent/child links and is driven by the same callbacks.  A child is
\* a node or a text run.
NodeItem(h) == [node |-> h, text |-> <<>>]
TextItem(s) == [node |-> NoHandle, text |-> s]

\* The reference sink has one document: every get_document handle stands for
\* the first one.
Root ==
    IF \E h \in Handles : origin[h] = "get_document"
    THEN CHOOSE h \in Handles :
             /\ origin[h] = "get_document"
             /\ \A g \in 1..(h - 1) : origin[g] # "get_document"
    ELSE NoHandle
Canon(h) == IF origin[h] = "get_document" THEN Root ELSE h

\* The text nodes below n, concatenated in preorder.
RECURSIVE ItemsText(_, _)
ItemsText(k, items) ==
    IF items = <<>> THEN <<>>
    ELSE (IF Head(items).node = NoHandle
          THEN Head(items).text
          ELSE ItemsText(k, k[Head(items).node]))
         \o ItemsText(k, Tail(items))
TreeText(k, n) == ItemsText(k, k[n])
DocTextOf(k) == IF Root = NoHandle THEN <<>> ELSE TreeText(k, Root)
DocText == DocTextOf(kids)

\* a is n or one of its ancestors.
RECURSIVE IsAncestor(_, _, _)
IsAncestor(p, a, n) ==
    \/ a = n
    \/ p[n] # NoHandle /\ IsAncestor(p, a, p[n])

Position(items, h) == CHOOSE i \in 1..Len(items) : items[i].node = h

\* Text put at index i of the children of n comes last in document order: n
\* is in the document, and no text lies at or after index i below n, nor
\* after n below any of its ancestors.
RECURSIVE AtEnd(_, _, _, _)
AtEnd(k, p, n, i) ==
    /\ ItemsText(k, SubSeq(k[n], i, Len(k[n]))) = <<>>
    /\ \/ n = Root
       \/ /\ p[n] # NoHandle
          /\ AtEnd(k, p, p[n], Position(k[p[n]], n) + 1)

ChildItem(child) ==
    IF child.kind = "AppendText" THEN TextItem(child.text) ELSE NodeItem(Canon(child.node))

\* A node may be linked under parent if it is detached, is not the document
\* and the link makes no cycle.
Linkable(p, parent, child) ==
    child.kind = "AppendNode" =>
        /\ Canon(child.node) # Root
        /\ p[Canon(child.node)] = NoHandle
        /\ ~IsAncestor(p, Canon(child.node), parent)

SetParent(p, child, parent) ==
    IF child.kind = "AppendNode"
    THEN [p EXCEPT ![Canon(child.node)] = parent]
    ELSE p

\* append: the child becomes the last child of parent.
ref_append(k, p, parent, child) ==
    [kids |-> [k EXCEPT ![parent] = Append(@, ChildItem(child))],
     par |-> SetParent(p, child, parent)]

\* append_before_sibling: the child goes right before sibling.
ref_append_before_sibling(k, p, sibling, child) ==
    [kids |-> [k EXCEPT ![p[sibling]] =
                   SubSeq(@, 1, Position(@, sibling) - 1)
                   \o <<ChildItem(child)>>
                   \o SubSeq(@, Position(@, sibling), Len(@))],
     par |-> SetParent(p, child, p[sibling])]

\* append_based_on_parent_node: foster-parent before element if it has a
\* parent, else append to prev_element.
ref_append_based_on_parent_node(k, p, element, prev_element, child) ==
    IF p[element] # NoHandle
    THEN ref_append_before_sibling(k, p, element, child)
    ELSE ref_append(k, p, prev_element, child)

\* remove_from_parent: detach target, with everything below it.
ref_remove_from_parent(k, p, target) ==
    IF p[target] = NoHandle
    THEN [kids |-> k, par |-> p]
    ELSE [kids |-> [k EXCEPT ![p[target]] = SelectSeq(@, LAMBDA it : it.node # target)],
          par |-> [p EXCEPT ![target] = NoHandle]]

\* reparent_children: the children of node move to the end of new_parent.
ref_reparent_children(k, p, node, new_parent) ==
    [kids |-> [k EXCEPT ![new_parent] = @ \o k[node], ![node] = <<>>],
     par |-> [h \in DOMAIN p |->
                 IF \E i \in 1..Len(k[node]) : k[node][i].node = h
                 THEN new_parent ELSE p[h]]]

RefAllocate(n, by) ==
    /\ status = "running"
    /\ Allocate(n, by, NoHandle)
    /\ kids' = Append(kids, <<>>)
    /\ par' = Append(par, NoHandle)
    /\ last' = Call(by, <<>>, NoChild, RetHandle(Len(nodes')))
    /\ UNCHANGED <<text, status, output, chunks, erred, twin, ordered, borrows, prev>>

RefLink(tree) ==
    /\ kids' = tree.kids
    /\ par' = tree.par

RefGetDocument == RefAllocate(get_document, "get_document")

RefCreateElement(name) == RefAllocate(create_element(name, <<>>, "flags"), "create_element")

RefGetTemplateContents(target) ==
    RefAllocate(get_template_contents(target), "get_template_contents")

RefAppend(parent, child) ==
    /\ status = "running"
    /\ Linkable(par, Canon(parent), child)
    /\ Deliver("append", parent, child)
    /\ Effect(Borrowing(child, append(text, parent, child)))
    /\ RefLink(ref_append(kids, par, Canon(parent), child))
    /\ ordered' = (ordered /\ (child.kind = "AppendText" =>
                                   AtEnd(kids, par, Canon(parent),
                                         Len(kids[Canon(parent)]) + 1)))
    /\ last' = Call("append", <<parent>>, child, NoRet)
    /\ borrows' = BorrowsAfter(child)
    /\ UNCHANGED <<nodes, output, origin, made_for, erred, twin, prev>>

RefAppendBasedOnParentNode(element, prev_element, child) ==
    /\ status = "running"
    /\ Canon(element) # Root
    /\ Linkable(par, IF par[element] # NoHandle THEN par[element] ELSE Canon(prev_element), child)
    /\ Deliver("append_based_on_parent_node", element, child)
    /\ Effect(Borrowing(child, append_based_on_parent_node(text, element, prev_element, child)))
    /\ RefLink(ref_append_based_on_parent_node(kids, par, element, Canon(prev_element), child))
    /\ ordered' = (ordered /\ (child.kind = "AppendText" =>
                                   IF par[element] # NoHandle
                                   THEN AtEnd(kids, par, par[element],
                                              Position(kids[par[element]], element))
                                   ELSE AtEnd(kids, par, Canon(prev_element),
                                              Len(kids[Canon(prev_element)]) + 1)))
    /\ last' = Call("append_based_on_parent_node", <<element, prev_element>>, child, NoRet)
    /\ borrows' = BorrowsAfter(child)
    /\ UNCHANGED <<nodes, output, origin, made_for, erred, twin, prev>>

RefRemoveFromParent(target) ==
    /\ status = "running"
    /\ Effect(remove_from_parent(text, target))
    /\ RefLink(ref_remove_from_parent(kids, par, Canon(target)))
    /\ ordered' = (ordered /\ DocTextOf(kids') = DocText)
    /\ last' = Call("remove_from_parent", <<target>>, NoChild, NoRet)
    /\ UNCHANGED <<nodes, output, origin, made_for, chunks, erred, twin, borrows, prev>>

RefReparentChildren(node, new_parent) ==
    /\ status = "running"
    /\ ~IsAncestor(par, Canon(node), Canon(new_parent))
    /\ Effect(reparent_children(text, node, new_parent))
    /\ RefLink(ref_reparent_children(kids, par, Canon(node), Canon(new_parent)))
    /\ ordered' = (ordered /\ DocTextOf(kids') = DocText)
    /\ last' = Call("reparent_children", <<node, new_parent>>, NoChild, NoRet)
    /\ UNCHANGED <<nodes, output, origin, made_for, chunks, erred, twin, borrows, prev>>

\* finish on both sinks; the history keeps the latest tree callback.
RefFinish ==
    /\ status = "running"
    /\ output' = finish(text)
    /\ status' = "finished"
    /\ UNCHANGED <<text, nodes, origin, made_for, chunks, last, erred, twin>>
    /\ UNCHANGED <<refvars, borrows, prev>>

NextRef ==
    \/ RefFinish
    \/ RefGetDocument
    \/ \E name \in TableNames : RefCreateElement(name)
    \/ \E target \in Handles : RefGetTemplateContents(target)
    \/ \E parent \in Handles, child \in Children : RefAppend(parent, child)
    \/ \E element \in Handles, prev_element \in Handles, child \in Children :
           RefAppendBasedOnParentNode(element, prev_element, child)
    \/ \E target \in Handles : RefRemoveFromParent(target)
    \/ \E node \in Handles, new_parent \in Handles : RefReparentChildren(node, new_parent)

SpecRef == Init /\ [][NextRef]_vars

\* ------------------------------------------------------ two calls in a row
\* strip_html_tags called again: each call builds its own sink with
\* TextOnly::default(), whatever the sink of the call before held.
TextOnly_default == <<>>

\* One sink kept and reused by every call.
sink_for_call_shared(previous) == previous

sink_for_call(previous) == TextOnly_default

Restart ==
    /\ status = "finished"
    /\ prev = NoPrev
    /\ prev' = [chunks |-> chunks, output |-> output]
    /\ text' = sink_for_call(text)
    /\ twin' = sink_for_call(twin)
    /\ nodes' = <<>>
    /\ origin' = <<>>
    /\ made_for' = <<>>
    /\ chunks' = <<>>
    /\ status' = "running"
    /\ output' = NoOutput
    /\ erred' = FALSE
    /\ borrows' = 0
    /\ last' = Call("default", <<>>, NoChild, NoRet)
    /\ UNCHANGED refvars

NextTwice ==
    \/ Restart
    \/ Finish
    \/ ParseError
    \/ GetDocument
    \/ \E name \in TableNames : CreateElement(name)
    \/ \E parent \in Handles, child \in Children : AppendTo(parent, child)
    \/ \E element \in Handles, prev_element \in Handles, child \in Children :
           AppendBasedOnParentNode(element, prev_element, child)

SpecTwice == Init /\ [][NextTwice]_vars

\* ------------------------------------------------------------ properties
RECURSIVE Concat(_)
Concat(cs) == IF cs = <<>> THEN <<>> ELSE Head(cs).text \o Concat(Tail(cs))

\* Offset of chunk i in the concatenation of the delivered payloads.
Offset(i) == Len(Concat(SubSeq(chunks, 1, i - 1)))

\* C1: the buffer is the concatenation, in call order, of exactly the text
\* payloads delivered through append and append_based_on_parent_node, with
\* nothing between them, whatever handle each was attached to.
C1_BufferIsConcatenation == text = Concat(chunks)

C1_Witness ==
    /\ Len(chunks) = 2
    /\ chunks[1].text # chunks[2].text
    /\ chunks[1].tmpl /\ ~chunks[2].tmpl
    /\ text = <<"a", "b", "a">>

\* C2: a sink that receives every append as append_based_on_parent_node and
\* every append_based_on_parent_node as append, with any handles, has the same
\* buffer after every step and the same finish output.
C2_FosterVariantEquivalent ==
    /\ twin = text
    /\ status = "finished" => output = finish(twin)

C2_Witness ==
    /\ last.op = "append_based_on_parent_node"
    /\ last.kind = "AppendText"
    /\ Len(chunks) = 2
    /\ twin = <<"a", "a", "b">>

\* Chunk i sits in buf at its offset.
InPlace(buf, i) ==
    /\ Len(buf) >= Offset(i) + Len(chunks[i].text)
    /\ SubSeq(buf, Offset(i) + 1, Offset(i) + Len(chunks[i].text)) = chunks[i].text

\* C3: text appended under a handle returned by get_template_contents sits in
\* the buffer, and in the finish output, at its point of emission relative to
\* all other delivered text.
C3_TemplateTextInPlace ==
    \A i \in 1..Len(chunks) :
        chunks[i].tmpl =>
            /\ InPlace(text, i)
            /\ status = "finished" => InPlace(output, i)

C3_Witness ==
    /\ status = "finished"
    /\ Len(chunks) = 2
    /\ ~chunks[1].tmpl /\ chunks[2].tmpl
    /\ output = <<"a", "a", "b">>

\* C4: finish returns the buffer as it is when finish is invoked and consumes
\* the sink: every step starts before any output was returned, and the step
\* that returns output returns the buffer and leaves the sink finished.
C4_FinishConsumesOnce ==
    [][/\ output = NoOutput
       /\ status # "finished"
       /\ (output' # NoOutput \/ status' = "finished") =>
              /\ last'.op = "finish"
              /\ output' = text
              /\ status' = "finished"]_vars

C4_Witness == status = "finished" /\ output = <<"a", "b", "a">>

\* C5: parse_error never fails and never changes the buffer; a callback fails
\* only if it is append_before_sibling or elem_name on a node that is not an
\* element; and finish returns all the text delivered, parse errors or not.
C5_ParseErrorHarmless ==
    [][/\ last'.op = "parse_error" => text' = text /\ status' = status /\ output' = output
       /\ status' = "panicked" =>
              \/ last'.op = "append_before_sibling"
              \/ \E target \in Handles :
                     ElemName(target) /\ nodes[target].data.kind # "Element"
       /\ status' = "finished" => output' = Concat(chunks)]_vars

C5_Witness ==
    /\ erred
    /\ status = "finished"
    /\ output = <<"a", "b">>

\* C6: append_before_sibling panics on every invocation, with a text or a
\* node payload, and leaves the buffer as it was.
C6_AppendBeforeSiblingFatal ==
    [][last'.op = "append_before_sibling" =>
           /\ status' = "panicked"
           /\ text' = text
           /\ output' = NoOutput]_vars

C6_Witness ==
    /\ last.op = "append_before_sibling"
    /\ last.kind = "AppendText"
    /\ status = "panicked"
    /\ text = <<"a">>

\* C7: elem_name panics exactly when its target was not returned by
\* create_element: the handles of get_document, get_template_contents,
\* create_comment and create_pi all make it panic.
C7_ElemNameOnlyForElements ==
    [][\A target \in Handles :
           ElemName(target) =>
               (status' = "panicked" <=> origin[target] # "create_element")]_vars

C7_Witness ==
    /\ last.op = "elem_name"
    /\ status = "panicked"
    /\ Len(nodes) = 2
    /\ origin[1] = "get_document"
    /\ origin[2] = "get_template_contents"

\* C8: output is returned only by a run that finished without a panic, and it
\* is then all the text delivered; once a callback panicked the run stays
\* panicked and never returns output.
C8_NoPartialResults ==
    [][/\ status = "panicked" => status' = "panicked" /\ output' = NoOutput
       /\ output' # NoOutput => status' = "finished" /\ output' = Concat(chunks')]_vars

C8_Witness ==
    /\ status = "panicked"
    /\ output = NoOutput
    /\ text = <<"a", "b">>

\* C9: a step changes the buffer only if it is append or
\* append_based_on_parent_node with a text payload.
C9_OnlyTextAppendsWrite ==
    [][text' # text =>
           /\ last'.op \in {"append", "append_based_on_parent_node"}
           /\ last'.kind = "AppendText"]_vars

\* reparent_children was called on the only node there is, after text was
\* appended under it.
C9_Witness ==
    /\ last.op = "reparent_children"
    /\ Len(nodes) = 1
    /\ text = <<"a", "b">>

\* C10 as stated: at finish the flat sink's output equals the preorder
\* concatenation of the reference tree's text nodes, for every callback
\* sequence.
C10_ReferenceProjection == status = "finished" => output = DocText

\* C10 as amended: the buffer, and the finish output, equal the reference
\* tree's preorder text whenever every text payload, appended or
\* foster-parented, was put where no text of the document follows it, and no
\* remove_from_parent or reparent_children changed the document's preorder
\* text.
C10_OrderedProjection ==
    ordered =>
        /\ text = DocText
        /\ status = "finished" => output = DocText

\* Text was foster-parented before an empty element two levels below the
\* document, after text of its parent, and the run finished.
C10_Witness ==
    /\ status = "finished"
    /\ ordered
    /\ last.op = "append_based_on_parent_node"
    /\ last.kind = "AppendText"
    /\ output = <<"a", "a", "b">>
    /\ Len(nodes) = 3
    /\ Root = 1
    /\ kids[Root] = <<NodeItem(2)>>
    /\ kids[2] = <<TextItem(<<"a">>), TextItem(<<"a", "b">>), NodeItem(3)>>

\* C11: same_node(x, y) returns true exactly when x and y are the handle made
\* by one and the same creating call, whatever the nodes hold; it is
\* reflexive and symmetric.
C11_SameNodeIsIdentity ==
    [][last'.op = "same_node" =>
           \A x \in Handles, y \in Handles :
               SameNode(x, y) =>
                   /\ last'.ret.same <=> x = y
                   /\ same_node(x, x)
                   /\ same_node(x, y) <=> same_node(y, x)]_vars

\* Two nodes from separate calls, alike in variant and name, are not the same.
C11_Witness ==
    /\ last.op = "same_node"
    /\ ~last.ret.same
    /\ Len(nodes) = 2
    /\ nodes[1] = nodes[2]
    /\ nodes[1].data.kind = "Element"

HandleReturning ==
    {"get_document", "create_element", "create_comment", "create_pi", "get_template_contents"}

\* C12: every call of a handle-returning callback returns a new node, which is
\* not same_node with any handle returned before and leaves the earlier nodes
\* as they were; get_document and get_template_contents return Document nodes;
\* and get_template_contents on a target it was already called on returns a
\* Document node that is not same_node with the one it returned then.
C12_HandlesAreFresh ==
    [][last'.op \in HandleReturning =>
           /\ Len(nodes') = Len(nodes) + 1
           /\ SubSeq(nodes', 1, Len(nodes)) = nodes
           /\ last'.ret.handle = Len(nodes')
           /\ \A h \in Handles : ~same_node(h, last'.ret.handle)
           /\ last'.op \in {"get_document", "get_template_contents"} =>
                  nodes'[last'.ret.handle].data = Document
           /\ \A target \in Handles :
                  GetTemplateContents(target) =>
                      \A h \in Handles :
                          made_for[h] = target =>
                              /\ ~same_node(h, last'.ret.handle)
                              /\ nodes'[h].data = Document
                              /\ nodes'[last'.ret.handle].data = Document]_vars

\* get_template_contents was called twice on the same element and returned a
\* second Document node.
C12_Witness ==
    /\ last.op = "get_template_contents"
    /\ last.ret.handle = 3
    /\ origin = <<"create_element", "get_template_contents", "get_template_contents">>
    /\ made_for = <<NoHandle, 1, 1>>
    /\ nodes[2] = nodes[3]
    /\ nodes[3].data = Document

\* The qualified name an ExpandedName stands for when read as one: it has no
\* prefix.
Qualified(e) == [prefix |-> "", ns |-> e.ns, local |-> e.local]

CreatedBy(h) == origin[h] = "create_element"

\* C13 as stated: right after create_element(n, attrs, flags), and at every
\* later elem_name on that handle, elem_name returns n.
C13_NameRoundTrip ==
    [][/\ \A name \in QualNames :
              CreateElement(name) =>
                  Qualified((elem_name(Len(nodes)).ret)') = name
       /\ \A target \in Handles :
              (ElemName(target) /\ CreatedBy(target)) =>
                  Qualified(last'.ret.name) = nodes[target].data.name]_vars

\* C13 as amended: elem_name returns the expanded name of n, its namespace
\* and local name without the prefix, whatever the attributes and flags; no
\* later callback changes what elem_name returns for the handle, and
\* create_element leaves the buffer alone.
C13_ExpandedNameRoundTrip ==
    [][/\ last'.op = "create_element" =>
              \A name \in QualNames :
                  CreateElement(name) =>
                      /\ (elem_name(Len(nodes)))' = [ret |-> expanded(name), panic |-> FALSE]
                      /\ text' = text
       /\ \A h \in Handles : CreatedBy(h) => (elem_name(h))' = elem_name(h)
       /\ last'.op = "elem_name" =>
              \A target \in Handles :
                  (ElemName(target) /\ CreatedBy(target)) =>
                      /\ last'.ret.name = elem_name(target).ret
                      /\ status' = "running"]_vars

\* elem_name answered for an element after text was appended under it.
C13_Witness ==
    /\ last.op = "elem_name"
    /\ last.ret.name = [ns |-> "svg", local |-> "title"]
    /\ status = "running"
    /\ Len(nodes) = 1
    /\ text = <<"a">>

\* C14: a call of strip_html_tags starts with an empty buffer, and when it
\* delivers the same payloads as the call before it returns the same output.
C14_CallsAreIndependent ==
    /\ chunks = <<>> => text = <<>>
    /\ (prev # NoPrev /\ status = "finished" /\ chunks = prev.chunks) =>
           output = prev.output

C14_Witness ==
    /\ prev # NoPrev
    /\ status = "finished"
    /\ chunks = prev.chunks
    /\ output = <<"a", "a", "b">>

\* C15: a run that delivered no text payload returns the empty string.
C15_NoTextNoOutput ==
    (status = "finished" /\ chunks = <<>>) => output = <<>>

\* Nodes were created and a no-op callback ran, no text came, finish
\* returned.
C15_Witness ==
    /\ status = "finished"
    /\ chunks = <<>>
    /\ Len(nodes) = 2
    /\ erred
    /\ output = <<>>

IsPrefix(s, t) == Len(s) <= Len(t) /\ SubSeq(t, 1, Len(s)) = s

\* C16: in every step the buffer before the step is a prefix of the buffer
\* after it.
C16_AppendOnly == [][IsPrefix(text, text')]_vars

C16_Witness ==
    /\ Len(chunks) = 2
    /\ text = <<"a", "b", "a", "b">>
    /\ status = "running"

\* C17: no borrow of the buffer is outstanding when a callback or finish is
\* invoked, so the borrow_mut of a text append succeeds and is the only
\* borrow while it lasts, and no text append panics.
C17_BorrowReleased ==
    /\ borrows = 0
    /\ borrow_mut(borrows).ok
    /\ borrow_mut(borrows).flag = 1
    /\ status = "panicked" => last.op \notin {"append", "append_based_on_parent_node"}

\* A second text payload was appended after the first one's borrow.
C17_Witness ==
    /\ last.op = "append"
    /\ last.kind = "AppendText"
    /\ Len(chunks) = 2
    /\ borrows = 0
    /\ status = "running"

====
